---- MODULE Spec2Model ----
(***************************************************************************)
(* Model of the MQTT consumer input plugin                                 *)
(* (plugins/inputs/mqtt_consumer/mqtt_consumer.go).                        *)
(*                                                                         *)
(* Actors: caller threads invoking Start / Stop / Gather (serialised by    *)
(* the embedded sync.Mutex), one parser goroutine per successful Start,    *)
(* and one delivery goroutine per broker client that invokes recvMessage.  *)
(* Go channels are heap objects: every Start that reaches the allocation   *)
(* makes new ones, so channels are indexed by the number of the Start that *)
(* made them and the struct fields m.in / m.done / m.metricC hold such an  *)
(* index (0 is the nil channel).                                           *)
(***************************************************************************)
EXTENDS Integers, Sequences, FiniteSets, TLC

\* ---- bounds of the model ------------------------------------------------
MaxStarts == 2        \* Start calls that get as far as mqtt.NewClient
MaxMsgs == 2          \* payloads the broker delivers in one behaviour
MaxBuffer == 2        \* largest configured metric_buffer explored
MaxCalls == 3         \* calls of findVersion in one behaviour

\* ---- program constants --------------------------------------------------
DefaultMetricBuffer == 100000

Callers == {1, 2}
Gens == 1..MaxStarts
Buffers == (-1)..MaxBuffer
Kinds == {"one", "two", "bad", "partial"}

VARIABLES
    Servers,      \* len(m.Servers)
    Topics,       \* len(m.Topics)
    MetricBuffer, \* m.MetricBuffer
    m_client,     \* m.client  (0 = nil, else the client's number)
    m_in,         \* m.in      (0 = nil, else the channel's number)
    m_done,       \* m.done
    m_metricC,    \* m.metricC
    nstarts,      \* clients created so far (allocator of numbers)
    inBuf, inCap,       \* heap: buffer and capacity of each "in" channel
    metBuf, metCap,     \* heap: buffer and capacity of each "metricC" channel
    doneClosed,         \* heap: whether each "done" channel is closed
    conn,         \* per client: "none" | "connected" | "failed" | "disconnected"
    subscribed,   \* per client: SubscribeMultiple succeeded
    lock,         \* holder of the sync.Mutex, 0 when free
    call,         \* per caller thread: the call in progress
    parser,       \* per Start: the parser goroutine it launched
    cb,           \* per client: the delivery goroutine running recvMessage
    msgs,         \* payloads delivered so far
    acc,          \* metrics Gather received from m.metricC, in order
    added,        \* the calls of acc.AddFields: what the accumulator was given
    dropped,      \* metrics for which the "buffer is full" line was logged
    fault,        \* "none", or the panic that ended the process
    Username,     \* m.Username
    Password,     \* m.Password
    opts,         \* the options and error the last createOpts call returned
    APIUser, APIKey, CMPInstance, ResourceID,   \* the CMP output's config
    a_client,     \* CMP.client: FALSE = nil, TRUE = an http.Client
    connectErr,   \* result of the last CMP.Connect: "none" | "nil" | "error"
    version,      \* package variable version of package cmp
    file,         \* what /current_version is at the moment
    impl,         \* which of the two findVersion sources is built
    opens,        \* number of os.Open calls made by findVersion
    calls,        \* number of findVersion calls made
    ret           \* what the last findVersion call returned

vars == <<Servers, Topics, MetricBuffer, m_client, m_in, m_done, m_metricC, nstarts,
          inBuf, inCap, metBuf, metCap, doneClosed, conn, subscribed, lock,
          call, parser, cb, msgs, acc, added, dropped, fault,
          Username, Password, opts, APIUser, APIKey, CMPInstance, ResourceID,
          a_client, connectErr, version, file, impl, opens, calls, ret>>

\* the state of the MQTT consumer
consumer == <<Servers, Topics, MetricBuffer, m_client, m_in, m_done, m_metricC, nstarts,
              inBuf, inCap, metBuf, metCap, doneClosed, conn, subscribed, lock,
              call, parser, cb, msgs, acc, added, dropped, fault>>
credentials == <<Username, Password>>
cmpConfig == <<APIUser, APIKey, CMPInstance, ResourceID>>
cmpState == <<a_client, connectErr>>
versionState == <<version, file, impl, opens, calls, ret>>
\* what the consumer's operations never touch
units == <<credentials, opts, cmpConfig, cmpState, versionState>>

config == <<Servers, Topics>>
fields == <<m_client, m_in, m_done, m_metricC>>
inHeap == <<inBuf, inCap>>
metHeap == <<metBuf, metCap>>
session == <<conn, subscribed>>
accum == <<acc, added>>

\* ---- helpers --------------------------------------------------------------
NoMsg == [id |-> 0, kind |-> "none", src |-> 0]

IdleCall == [pc |-> "idle", g |-> 0, nmetrics |-> 0, i |-> 0,
             snap |-> <<>>, fwd |-> <<>>, err |-> FALSE]

\* the call has set its result and is about to run the deferred m.Unlock()
Returning(op, e) == [IdleCall EXCEPT !.pc = op, !.err = e]

NoParser == [pc |-> "none", d |-> 0, i |-> 0, metrics |-> <<>>]

IdleCb == [pc |-> "idle", ch |-> 0, msg |-> NoMsg]

\* telegraf.ParseMetrics: the decoder's result for a payload.  The payload
\* carries what the decoder makes of it: the number of metrics and whether
\* an error comes with them.
NumMetrics(kind) ==
    CASE kind = "one" -> 1
      [] kind = "two" -> 2
      [] kind = "partial" -> 1
      [] OTHER -> 0

ParseMetrics(msg) ==
    [metrics |-> [k \in 1..NumMetrics(msg.kind) |->
                    [msg |-> msg.id, idx |-> k, src |-> msg.src]],
     err |-> msg.kind \in {"bad", "partial"}]

createOptsAccepts == FALSE

\* createOpts: "if len(m.Servers) == 0 { return opts, fmt.Errorf(...) }"
createOptsFails == Servers = 0

NoLock == TRUE

\* sync.Mutex.Lock succeeds only on a free mutex
CanLock == lock = 0

\* Caller threads are interchangeable: of the idle ones, the lowest makes the
\* next call, so a second thread calls only while the first is inside a call.
Calls(t) == call[t].pc = "idle" /\ \A u \in Callers : u < t => call[u].pc # "idle"

\* len(ch) of a metric channel; len of a nil channel is 0
ChanLen(ch) == IF ch = 0 THEN 0 ELSE Len(metBuf[ch])

\* a buffered send on "in" channel ch can complete at once
InHasRoom(ch) == ch # 0 /\ Len(inBuf[ch]) < inCap[ch]

MetAlwaysRoom(ch) == ch # 0

\* the non-blocking send of parser(): the case is taken iff there is room
MetHasRoom(ch) == ch # 0 /\ Len(metBuf[ch]) < metCap[ch]

MetSendEvict(ch, metric) ==
    IF ch = 0 THEN metBuf
    ELSE IF MetHasRoom(ch) THEN [metBuf EXCEPT ![ch] = Append(@, metric)]
    ELSE [metBuf EXCEPT ![ch] = Append(Tail(@), metric)]

\* the metric channels after "select { case m.metricC <- metric: default: }"
MetSend(ch, metric) ==
    IF MetHasRoom(ch) THEN [metBuf EXCEPT ![ch] = Append(@, metric)] ELSE metBuf

\* callbacks parked in a send on channel ch
BlockedSenders(ch) == {c \in Gens : cb[c].pc = "blocked" /\ cb[c].ch = ch}

\* ---- createOpts, CMP output, findVersion -------------------------------------
\* no createOpts call has returned yet
NoOpts == [usernameSet |-> FALSE, username |-> "", passwordSet |-> FALSE, password |-> "",
           err |-> FALSE, called |-> FALSE]

createOptsFixed(user, password, servers) ==
    [usernameSet |-> user # "",
     username |-> user,
     passwordSet |-> password # "",
     password |-> password,
     err |-> servers = 0,
     called |-> TRUE]

\* createOpts (lines 145-187), credentials and error: "if user == "" {
\* opts.SetUsername(user) }", "if password != "" { opts.SetPassword(password) }",
\* "if len(m.Servers) == 0 { return opts, fmt.Errorf(...) }".  An option
\* that was not set keeps the empty string of mqtt.NewClientOptions.
createOpts(user, password, servers) ==
    [usernameSet |-> user = "",
     username |-> IF user = "" THEN user ELSE "",
     passwordSet |-> password # "",
     password |-> IF password # "" THEN password ELSE "",
     err |-> servers = 0,
     called |-> TRUE]

\* versionUnknown (part_000 line 11, part_001 line 11)
versionUnknown == "unknown"

\* a line of /current_version: "version: " followed by value, or other text
VersionLine(value) == [isVersion |-> TRUE, value |-> value]
OtherLine == [isVersion |-> FALSE, value |-> "telegraf"]

\* what os.Open and ioutil.ReadAll make of /current_version
Absent == [state |-> "absent", lines |-> <<>>]
Unreadable == [state |-> "unreadable", lines |-> <<>>]
Content(lines) == [state |-> "ok", lines |-> lines]

Files ==
    {Absent, Unreadable, Content(<<>>), Content(<<OtherLine>>),
     Content(<<VersionLine("1.9.1")>>), Content(<<VersionLine("")>>),
     Content(<<OtherLine, VersionLine("1.9.1")>>),
     Content(<<VersionLine("1.9.1"), VersionLine("2.0.0")>>)}

\* strings.HasPrefix(l, "version: ") and strings.TrimPrefix(l, "version: ")
HasPrefix(l) == l.isVersion
TrimPrefix(l) == l.value

\* the loop over the lines in part_000 (lines 34-40): version starts as v and
\* the first line with the prefix overwrites it, then break
RECURSIVE ScanBreak(_, _)
ScanBreak(lines, v) ==
    IF lines = <<>> THEN v
    ELSE IF HasPrefix(Head(lines)) THEN TrimPrefix(Head(lines))
    ELSE ScanBreak(Tail(lines), v)

\* the loop over the lines in part_001 (lines 35-44): the first line with the
\* prefix is returned, and versionUnknown after the loop
RECURSIVE ScanReturn(_)
ScanReturn(lines) ==
    IF lines = <<>> THEN versionUnknown
    ELSE IF HasPrefix(Head(lines)) THEN TrimPrefix(Head(lines))
    ELSE ScanReturn(Tail(lines))

\* the value findVersion stores in version when it reads the file
ReadVersion(f) ==
    IF f.state # "ok" THEN versionUnknown
    ELSE IF impl = "part_000" THEN ScanBreak(f.lines, versionUnknown)
    ELSE ScanReturn(f.lines)

\* "if version != "" { return version }"
Cached == version # ""

\* the consumer's actions leave these as the constructor made them
UnitsIdle ==
    /\ Username = "" /\ Password = "" /\ opts = NoOpts
    /\ APIUser = "" /\ APIKey = "" /\ CMPInstance = "" /\ ResourceID = ""
    /\ a_client = FALSE /\ connectErr = "none"
    /\ version = "" /\ file = Absent /\ impl = "part_000"
    /\ opens = 0 /\ calls = 0 /\ ret = ""

\* ---- initial state ---------------------------------------------------------
ConsumerInit ==
    /\ Servers \in {0, 1}
    /\ Topics \in {0, 1}
    /\ MetricBuffer \in Buffers
    /\ m_client = 0 /\ m_in = 0 /\ m_done = 0 /\ m_metricC = 0
    /\ nstarts = 0
    /\ inBuf = [g \in Gens |-> <<>>]
    /\ inCap = [g \in Gens |-> 0]
    /\ metBuf = [g \in Gens |-> <<>>]
    /\ metCap = [g \in Gens |-> 0]
    /\ doneClosed = [g \in Gens |-> FALSE]
    /\ conn = [g \in Gens |-> "none"]
    /\ subscribed = [g \in Gens |-> FALSE]
    /\ lock = 0
    /\ call = [t \in Callers |-> IdleCall]
    /\ parser = [g \in Gens |-> NoParser]
    /\ cb = [g \in Gens |-> IdleCb]
    /\ msgs = 0
    /\ acc = <<>>
    /\ added = <<>>
    /\ dropped = {}
    /\ fault = "none"

Init == ConsumerInit /\ UnitsIdle

\* ---- Start -----------------------------------------------------------------
\* Lock, createOpts, NewClient, Connect (lines 63-74)
StartConnect(t) ==
    /\ fault = "none" /\ Calls(t) /\ CanLock
    /\ nstarts < MaxStarts
    /\ lock' = t
    /\ IF createOptsFails
       THEN /\ call' = [call EXCEPT ![t] = Returning("start_ret", TRUE)]
            /\ UNCHANGED <<fields, nstarts, conn>>
       ELSE /\ nstarts' = nstarts + 1
            /\ m_client' = nstarts + 1
            /\ UNCHANGED <<m_in, m_done, m_metricC>>
            /\ \E ok \in BOOLEAN :
                 IF ok
                 THEN /\ conn' = [conn EXCEPT ![nstarts + 1] = "connected"]
                      /\ call' = [call EXCEPT ![t] =
                                    [IdleCall EXCEPT !.pc = "start_in", !.g = nstarts + 1]]
                 ELSE /\ conn' = [conn EXCEPT ![nstarts + 1] = "failed"]
                      /\ call' = [call EXCEPT ![t] =
                                    [Returning("start_ret", TRUE) EXCEPT !.g = nstarts + 1]]
    /\ UNCHANGED <<config, units, MetricBuffer, inHeap, metHeap, doneClosed, subscribed,
                   parser, cb, msgs, accum, dropped, fault>>

StartMakeInDefaulted(t) ==
    /\ fault = "none" /\ call[t].pc = "start_in"
    /\ IF MetricBuffer < 0
       THEN /\ fault' = "makechan: size out of range"
            /\ UNCHANGED <<m_in, inCap, call>>
       ELSE /\ m_in' = call[t].g
            /\ inCap' = [inCap EXCEPT ![call[t].g] =
                            IF MetricBuffer = 0 THEN DefaultMetricBuffer ELSE MetricBuffer]
            /\ call' = [call EXCEPT ![t].pc = "start_done"]
            /\ fault' = fault
    /\ UNCHANGED <<config, units, MetricBuffer, m_client, m_done, m_metricC, nstarts, inBuf,
                   metHeap, doneClosed, session, lock, parser, cb, msgs, accum, dropped>>

\* m.in = make(chan []byte, m.MetricBuffer) (line 76)
StartMakeIn(t) ==
    /\ fault = "none" /\ call[t].pc = "start_in"
    /\ IF MetricBuffer < 0
       THEN /\ fault' = "makechan: size out of range"
            /\ UNCHANGED <<m_in, inCap, call>>
       ELSE /\ m_in' = call[t].g
            /\ inCap' = [inCap EXCEPT ![call[t].g] = MetricBuffer]
            /\ call' = [call EXCEPT ![t].pc = "start_done"]
            /\ fault' = fault
    /\ UNCHANGED <<config, units, MetricBuffer, m_client, m_done, m_metricC, nstarts, inBuf,
                   metHeap, doneClosed, session, lock, parser, cb, msgs, accum, dropped>>

\* m.done = make(chan struct{}); default of m.MetricBuffer (lines 77-80)
StartMakeDone(t) ==
    /\ fault = "none" /\ call[t].pc = "start_done"
    /\ m_done' = call[t].g
    /\ MetricBuffer' = IF MetricBuffer = 0 THEN DefaultMetricBuffer ELSE MetricBuffer
    /\ call' = [call EXCEPT ![t].pc = "start_metricC"]
    /\ UNCHANGED <<config, units, m_client, m_in, m_metricC, nstarts, inHeap, metHeap,
                   doneClosed, session, lock, parser, cb, msgs, accum, dropped, fault>>

\* m.metricC = make(chan telegraf.Metric, m.MetricBuffer) (line 81)
StartMakeMetricC(t) ==
    /\ fault = "none" /\ call[t].pc = "start_metricC"
    /\ m_metricC' = call[t].g
    /\ metCap' = [metCap EXCEPT ![call[t].g] = MetricBuffer]
    /\ call' = [call EXCEPT ![t].pc = "start_sub"]
    /\ UNCHANGED <<config, units, MetricBuffer, m_client, m_in, m_done, nstarts, inHeap, metBuf,
                   doneClosed, session, lock, parser, cb, msgs, accum, dropped, fault>>

StartSubscribeUndo(t) ==
    /\ fault = "none" /\ call[t].pc = "start_sub"
    /\ \E ok \in BOOLEAN :
         IF ok
         THEN /\ subscribed' = [subscribed EXCEPT ![call[t].g] = TRUE]
              /\ call' = [call EXCEPT ![t].pc = "start_go"]
              /\ conn' = conn
         ELSE /\ subscribed' = subscribed
              /\ conn' = [conn EXCEPT ![call[t].g] = "disconnected"]
              /\ call' = [call EXCEPT ![t] =
                            [Returning("start_ret", TRUE) EXCEPT !.g = call[t].g]]
    /\ UNCHANGED <<config, units, MetricBuffer, fields, nstarts, inHeap, metHeap, doneClosed,
                   lock, parser, cb, msgs, accum, dropped, fault>>

StartSubscribeEarlyGo(t) ==
    /\ fault = "none" /\ call[t].pc = "start_sub"
    /\ parser' = [parser EXCEPT ![call[t].g] = [NoParser EXCEPT !.pc = "top"]]
    /\ \E ok \in BOOLEAN :
         IF ok
         THEN /\ subscribed' = [subscribed EXCEPT ![call[t].g] = TRUE]
              /\ call' = [call EXCEPT ![t] =
                            [Returning("start_ret", FALSE) EXCEPT !.g = call[t].g]]
         ELSE /\ subscribed' = subscribed
              /\ call' = [call EXCEPT ![t] =
                            [Returning("start_ret", TRUE) EXCEPT !.g = call[t].g]]
    /\ UNCHANGED <<config, units, MetricBuffer, fields, nstarts, inHeap, metHeap, doneClosed,
                   conn, lock, cb, msgs, accum, dropped, fault>>

\* SubscribeMultiple, Wait, and the error return (lines 83-91)
StartSubscribe(t) ==
    /\ fault = "none" /\ call[t].pc = "start_sub"
    /\ \E ok \in BOOLEAN :
         IF ok
         THEN /\ subscribed' = [subscribed EXCEPT ![call[t].g] = TRUE]
              /\ call' = [call EXCEPT ![t].pc = "start_go"]
         ELSE /\ subscribed' = subscribed
              /\ call' = [call EXCEPT ![t] =
                            [Returning("start_ret", TRUE) EXCEPT !.g = call[t].g]]
    /\ UNCHANGED <<config, units, MetricBuffer, fields, nstarts, inHeap, metHeap, doneClosed,
                   conn, lock, parser, cb, msgs, accum, dropped, fault>>

\* go m.parser(); return nil (lines 93-95)
StartGo(t) ==
    /\ fault = "none" /\ call[t].pc = "start_go"
    /\ parser' = [parser EXCEPT ![call[t].g] = [NoParser EXCEPT !.pc = "top"]]
    /\ call' = [call EXCEPT ![t] =
                  [Returning("start_ret", FALSE) EXCEPT !.g = call[t].g]]
    /\ UNCHANGED <<config, units, MetricBuffer, fields, nstarts, inHeap, metHeap, doneClosed,
                   session, lock, cb, msgs, accum, dropped, fault>>

\* ---- Stop ------------------------------------------------------------------
StopCloseLater(t) ==
    /\ fault = "none" /\ Calls(t) /\ CanLock
    /\ IF m_done = 0
       THEN /\ fault' = "close of nil channel"
            /\ UNCHANGED <<lock, call>>
       ELSE IF doneClosed[m_done]
       THEN /\ fault' = "close of closed channel"
            /\ UNCHANGED <<lock, call>>
       ELSE /\ lock' = t
            /\ call' = [call EXCEPT ![t] = [IdleCall EXCEPT !.pc = "stop_disc"]]
            /\ fault' = fault
    /\ UNCHANGED <<config, units, MetricBuffer, fields, nstarts, inHeap, metHeap, doneClosed,
                   session, parser, cb, msgs, accum, dropped>>

\* Lock; close(m.done) (lines 128-130)
StopClose(t) ==
    /\ fault = "none" /\ Calls(t) /\ CanLock
    /\ IF m_done = 0
       THEN /\ fault' = "close of nil channel"
            /\ UNCHANGED <<doneClosed, lock, call>>
       ELSE IF doneClosed[m_done]
       THEN /\ fault' = "close of closed channel"
            /\ UNCHANGED <<doneClosed, lock, call>>
       ELSE /\ doneClosed' = [doneClosed EXCEPT ![m_done] = TRUE]
            /\ lock' = t
            /\ call' = [call EXCEPT ![t] = [IdleCall EXCEPT !.pc = "stop_disc"]]
            /\ fault' = fault
    /\ UNCHANGED <<config, units, MetricBuffer, fields, nstarts, inHeap, metHeap, session,
                   parser, cb, msgs, accum, dropped>>

StopDisconnectDrain(t) ==
    /\ fault = "none" /\ call[t].pc = "stop_disc"
    /\ IF m_client = 0
       THEN /\ fault' = "nil pointer dereference"
            /\ UNCHANGED <<conn, call, metBuf>>
       ELSE /\ conn' = [conn EXCEPT ![m_client] =
                          IF @ = "connected" THEN "disconnected" ELSE @]
            /\ metBuf' = [metBuf EXCEPT ![m_metricC] = <<>>]
            /\ call' = [call EXCEPT ![t] = Returning("stop_ret", FALSE)]
            /\ fault' = fault
    /\ UNCHANGED <<config, units, MetricBuffer, fields, nstarts, inHeap, metCap, doneClosed,
                   subscribed, lock, parser, cb, msgs, accum, dropped>>

\* m.client.Disconnect(200) (line 131)
StopDisconnect(t) ==
    /\ fault = "none" /\ call[t].pc = "stop_disc"
    /\ IF m_client = 0
       THEN /\ fault' = "nil pointer dereference"
            /\ UNCHANGED <<conn, call>>
       ELSE /\ conn' = [conn EXCEPT ![m_client] =
                          IF @ = "connected" THEN "disconnected" ELSE @]
            /\ call' = [call EXCEPT ![t] = Returning("stop_ret", FALSE)]
            /\ fault' = fault
    /\ UNCHANGED <<config, units, MetricBuffer, fields, nstarts, inHeap, metHeap, doneClosed,
                   subscribed, lock, parser, cb, msgs, accum, dropped>>

\* ---- Gather ----------------------------------------------------------------
\* the parts of a decoded metric: what the decoder made of its line of the
\* payload, the k-th line of payload id
Name(metric) == <<"name", metric.msg, metric.idx>>
Fields(metric) == <<"fields", metric.msg, metric.idx>>
Tags(metric) == <<"tags", metric.msg, metric.idx>>
Time(metric) == <<"time", metric.msg, metric.idx>>

\* Accumulator.AddFields: the record the accumulator is given
AddFields(measurement, flds, tags, t) ==
    [name |-> measurement, fields |-> flds, tags |-> tags, time |-> t]

AddFieldsNoTags(metric) ==
    AddFields(Name(metric), Fields(metric), <<>>, Time(metric))

\* acc.AddFields(metric.Name(), metric.Fields(), metric.Tags(), metric.Time())
\* (line 140)
AddFieldsCall(metric) ==
    AddFields(Name(metric), Fields(metric), Tags(metric), Time(metric))

GatherSnapshotLong(ch) == ChanLen(ch) + 1

\* nmetrics := len(m.metricC) (line 137)
GatherSnapshot(ch) == ChanLen(ch)

\* Lock and the snapshot of the length (lines 135-137)
GatherBegin(t) ==
    /\ fault = "none" /\ Calls(t) /\ CanLock
    /\ lock' = t
    /\ call' = [call EXCEPT ![t] =
                  [IdleCall EXCEPT !.pc = "gather_loop",
                                   !.nmetrics = GatherSnapshot(m_metricC),
                                   !.snap = IF m_metricC = 0 THEN <<>> ELSE metBuf[m_metricC]]]
    /\ UNCHANGED <<config, units, MetricBuffer, fields, nstarts, inHeap, metHeap, doneClosed,
                   session, parser, cb, msgs, accum, dropped, fault>>

GatherRecvPeek(t) ==
    /\ fault = "none" /\ call[t].pc = "gather_loop"
    /\ call[t].i < call[t].nmetrics
    /\ m_metricC # 0 /\ metBuf[m_metricC] # <<>>
    /\ acc' = Append(acc, Head(metBuf[m_metricC]))
    /\ added' = Append(added, AddFieldsCall(Head(metBuf[m_metricC])))
    /\ call' = [call EXCEPT ![t].i = @ + 1,
                            ![t].fwd = Append(@, Head(metBuf[m_metricC]))]
    /\ UNCHANGED <<config, units, MetricBuffer, fields, nstarts, inHeap, metHeap, doneClosed,
                   session, lock, parser, cb, msgs, dropped, fault>>

\* one iteration: metric := <-m.metricC; acc.AddFields(...) (lines 138-141).
\* The receive blocks on an empty or nil channel.
GatherRecv(t) ==
    /\ fault = "none" /\ call[t].pc = "gather_loop"
    /\ call[t].i < call[t].nmetrics
    /\ m_metricC # 0 /\ metBuf[m_metricC] # <<>>
    /\ acc' = Append(acc, Head(metBuf[m_metricC]))
    /\ added' = Append(added, AddFieldsCall(Head(metBuf[m_metricC])))
    /\ metBuf' = [metBuf EXCEPT ![m_metricC] = Tail(@)]
    /\ call' = [call EXCEPT ![t].i = @ + 1,
                            ![t].fwd = Append(@, Head(metBuf[m_metricC]))]
    /\ UNCHANGED <<config, units, MetricBuffer, fields, nstarts, inHeap, metCap, doneClosed,
                   session, lock, parser, cb, msgs, dropped, fault>>

GatherReturnErr(t) ==
    /\ fault = "none" /\ call[t].pc = "gather_loop"
    /\ call[t].i >= call[t].nmetrics
    /\ call' = [call EXCEPT ![t].pc = "gather_ret", ![t].err = dropped # {}]
    /\ UNCHANGED <<config, units, MetricBuffer, fields, nstarts, inHeap, metHeap, doneClosed,
                   session, lock, parser, cb, msgs, accum, dropped, fault>>

\* loop exit and return nil (lines 138, 142)
GatherReturn(t) ==
    /\ fault = "none" /\ call[t].pc = "gather_loop"
    /\ call[t].i >= call[t].nmetrics
    /\ call' = [call EXCEPT ![t].pc = "gather_ret"]
    /\ UNCHANGED <<config, units, MetricBuffer, fields, nstarts, inHeap, metHeap, doneClosed,
                   session, lock, parser, cb, msgs, accum, dropped, fault>>

\* defer m.Unlock() of Start, Stop and Gather (lines 64, 129, 136): runs when
\* the call returns, after its result is set
Unlock(t) ==
    /\ fault = "none" /\ call[t].pc \in {"start_ret", "stop_ret", "gather_ret"}
    /\ lock' = 0
    /\ call' = [call EXCEPT ![t] = IdleCall]
    /\ UNCHANGED <<config, units, MetricBuffer, fields, nstarts, inHeap, metHeap, doneClosed,
                   session, parser, cb, msgs, accum, dropped, fault>>

\* ---- parser goroutine ------------------------------------------------------
\* what parser() does with a received payload (lines 104-110): decode, then
\* range over whatever the decoder returned
ProcessFatal(p, msg) ==
    LET r == ParseMetrics(msg)
    IN  IF r.err
        THEN [NoParser EXCEPT !.pc = "exited"]
        ELSE [NoParser EXCEPT !.pc = "range", !.metrics = r.metrics]

Process(p, msg) ==
    LET r == ParseMetrics(msg)
    IN  IF r.metrics = <<>>
        THEN [NoParser EXCEPT !.pc = "top"]
        ELSE [NoParser EXCEPT !.pc = "range", !.metrics = r.metrics]

\* case <-m.done: return (lines 101-102)
ParserTakeDone(p, d) ==
    /\ d # 0 /\ doneClosed[d]
    /\ parser' = [parser EXCEPT ![p] = [NoParser EXCEPT !.pc = "exited"]]
    /\ UNCHANGED <<inHeap, cb>>

\* case msg := <-m.in (line 103): from the buffer, or straight from a sender
\* parked on an unbuffered channel
ParserTakeIn(p, i) ==
    /\ i # 0
    /\ \/ /\ inBuf[i] # <<>>
          /\ inBuf' = [inBuf EXCEPT ![i] = Tail(@)]
          /\ parser' = [parser EXCEPT ![p] = Process(p, Head(inBuf[i]))]
          /\ UNCHANGED <<inCap, cb>>
       \/ /\ inBuf[i] = <<>>
          /\ \E c \in BlockedSenders(i) :
               /\ cb' = [cb EXCEPT ![c] = IdleCb]
               /\ parser' = [parser EXCEPT ![p] = Process(p, cb[c].msg)]
          /\ UNCHANGED <<inHeap>>

SelectReady(d, i) ==
    \/ d # 0 /\ doneClosed[d]
    \/ i # 0 /\ (inBuf[i] # <<>> \/ BlockedSenders(i) # {})

\* the select statement entered at the top of the loop (lines 99-103): the
\* channel operands are read from the struct, a ready case is taken, and with
\* none ready the goroutine parks on those two channels
ParserSelect(p) ==
    /\ fault = "none" /\ parser[p].pc = "top"
    /\ \/ ParserTakeDone(p, m_done)
       \/ ParserTakeIn(p, m_in)
       \/ /\ ~SelectReady(m_done, m_in)
          /\ parser' = [parser EXCEPT ![p] =
                          [NoParser EXCEPT !.pc = "blocked", !.d = m_done, !.i = m_in]]
          /\ UNCHANGED <<inHeap, cb>>
    /\ UNCHANGED <<config, units, MetricBuffer, fields, nstarts, metHeap, doneClosed, session,
                   lock, call, msgs, accum, dropped, fault>>

\* a parked select is woken by one of the channels it parked on
ParserWake(p) ==
    /\ fault = "none" /\ parser[p].pc = "blocked"
    /\ \/ ParserTakeDone(p, parser[p].d)
       \/ ParserTakeIn(p, parser[p].i)
    /\ UNCHANGED <<config, units, MetricBuffer, fields, nstarts, metHeap, doneClosed, session,
                   lock, call, msgs, accum, dropped, fault>>

ParserSendBlocking(p) ==
    /\ fault = "none" /\ parser[p].pc = "range"
    /\ MetHasRoom(m_metricC)
    /\ LET metric == Head(parser[p].metrics)
           rest == Tail(parser[p].metrics)
       IN  /\ metBuf' = MetSend(m_metricC, metric)
           /\ dropped' = dropped
           /\ parser' = [parser EXCEPT ![p] =
                           IF rest = <<>> THEN [NoParser EXCEPT !.pc = "top"]
                           ELSE [@ EXCEPT !.metrics = rest]]
    /\ UNCHANGED <<config, units, MetricBuffer, fields, nstarts, inHeap, metCap, doneClosed,
                   session, lock, call, cb, msgs, accum, fault>>

\* one iteration of the range loop: select { case m.metricC <- metric: ;
\* default: log "buffer is full" } (lines 110-118)
ParserSend(p) ==
    /\ fault = "none" /\ parser[p].pc = "range"
    /\ LET metric == Head(parser[p].metrics)
           rest == Tail(parser[p].metrics)
       IN  /\ metBuf' = MetSend(m_metricC, metric)
           /\ dropped' = IF MetHasRoom(m_metricC) THEN dropped ELSE dropped \cup {metric}
           /\ parser' = [parser EXCEPT ![p] =
                           IF rest = <<>> THEN [NoParser EXCEPT !.pc = "top"]
                           ELSE [@ EXCEPT !.metrics = rest]]
    /\ UNCHANGED <<config, units, MetricBuffer, fields, nstarts, inHeap, metCap, doneClosed,
                   session, lock, call, cb, msgs, accum, fault>>

\* ---- delivery callback -----------------------------------------------------
\* parsers parked in a select on channel ch whose done case has not fired
ParkedReceivers(ch) ==
    {p \in Gens : /\ parser[p].pc = "blocked" /\ parser[p].i = ch
                  /\ ~(parser[p].d # 0 /\ doneClosed[parser[p].d])}

\* recvMessage: m.in <- msg.Payload() (lines 123-125), invoked by the delivery
\* goroutine of a connected, subscribed client.  The send completes at once
\* when the buffer has room or a receiver is parked; otherwise it parks.
recvMessage(c, msg) ==
    IF InHasRoom(m_in)
    THEN /\ inBuf' = [inBuf EXCEPT ![m_in] = Append(@, msg)]
         /\ UNCHANGED <<inCap, cb, parser>>
    ELSE IF m_in # 0 /\ inBuf[m_in] = <<>> /\ ParkedReceivers(m_in) # {}
    THEN /\ \E p \in ParkedReceivers(m_in) :
              parser' = [parser EXCEPT ![p] = Process(p, msg)]
         /\ UNCHANGED <<inHeap, cb>>
    ELSE /\ cb' = [cb EXCEPT ![c] = [pc |-> "blocked", ch |-> m_in, msg |-> msg]]
         /\ UNCHANGED <<inHeap, parser>>

DeliverKindLocked(c, k) ==
    /\ fault = "none" /\ cb[c].pc = "idle"
    /\ CanLock
    /\ conn[c] = "connected" /\ subscribed[c] /\ Topics > 0
    /\ msgs' = msgs + 1
    /\ recvMessage(c, [id |-> msgs + 1, kind |-> k, src |-> c])
    /\ UNCHANGED <<config, units, MetricBuffer, fields, nstarts, metHeap, doneClosed, session,
                   lock, call, accum, dropped, fault>>

\* the broker publishes a payload of kind k on a subscribed topic and the
\* client's delivery goroutine calls recvMessage with it
DeliverKind(c, k) ==
    /\ fault = "none" /\ cb[c].pc = "idle"
    /\ conn[c] = "connected" /\ subscribed[c] /\ Topics > 0
    /\ msgs' = msgs + 1
    /\ recvMessage(c, [id |-> msgs + 1, kind |-> k, src |-> c])
    /\ UNCHANGED <<config, units, MetricBuffer, fields, nstarts, metHeap, doneClosed, session,
                   lock, call, accum, dropped, fault>>

Deliver(c) ==
    /\ msgs < MaxMsgs
    /\ \E k \in Kinds : DeliverKind(c, k)

\* a parked send completes when the buffer gets room
SendUnblock(c) ==
    /\ fault = "none" /\ cb[c].pc = "blocked"
    /\ InHasRoom(cb[c].ch)
    /\ inBuf' = [inBuf EXCEPT ![cb[c].ch] = Append(@, cb[c].msg)]
    /\ cb' = [cb EXCEPT ![c] = IdleCb]
    /\ UNCHANGED <<config, units, MetricBuffer, fields, nstarts, inCap, metHeap, doneClosed,
                   session, lock, call, parser, msgs, accum, dropped, fault>>

\* ---- specification ---------------------------------------------------------
Next ==
    \/ \E t \in Callers : StartConnect(t)
    \/ \E t \in Callers : StartMakeIn(t)
    \/ \E t \in Callers : StartMakeDone(t)
    \/ \E t \in Callers : StartMakeMetricC(t)
    \/ \E t \in Callers : StartSubscribe(t)
    \/ \E t \in Callers : StartGo(t)
    \/ \E t \in Callers : StopClose(t)
    \/ \E t \in Callers : StopDisconnect(t)
    \/ \E t \in Callers : GatherBegin(t)
    \/ \E t \in Callers : GatherRecv(t)
    \/ \E t \in Callers : GatherReturn(t)
    \/ \E t \in Callers : Unlock(t)
    \/ \E p \in Gens : ParserSelect(p)
    \/ \E p \in Gens : ParserWake(p)
    \/ \E p \in Gens : ParserSend(p)
    \/ \E c \in Gens : Deliver(c)
    \/ \E c \in Gens : SendUnblock(c)

Spec == Init /\ [][Next]_vars

\* ---- the malformed-payload scenario ---------------------------------------
\* the delivered sequence [valid1, malformed, valid2]: the kinds each
\* position may take
Scenario == <<{"one", "two"}, {"bad", "partial"}, {"one", "two"}>>

DeliverScenario(c) ==
    /\ msgs < Len(Scenario)
    /\ \E k \in Scenario[msgs + 1] : DeliverKind(c, k)

\* a usable configuration (servers, topics, a queue capacity make accepts)
InitIso ==
    /\ Init
    /\ Servers > 0 /\ Topics > 0 /\ MetricBuffer >= 0

\* the plugin is started once
StartOnce(t) == nstarts = 0 /\ StartConnect(t)

\* Start once, never Stop, Gather again and again
NextIso ==
    \/ \E t \in Callers : StartOnce(t)
    \/ \E t \in Callers : StartMakeIn(t)
    \/ \E t \in Callers : StartMakeDone(t)
    \/ \E t \in Callers : StartMakeMetricC(t)
    \/ \E t \in Callers : StartSubscribe(t)
    \/ \E t \in Callers : StartGo(t)
    \/ \E t \in Callers : GatherBegin(t)
    \/ \E t \in Callers : GatherRecv(t)
    \/ \E t \in Callers : GatherReturn(t)
    \/ \E t \in Callers : Unlock(t)
    \/ \E p \in Gens : ParserSelect(p)
    \/ \E p \in Gens : ParserWake(p)
    \/ \E p \in Gens : ParserSend(p)
    \/ \E c \in Gens : DeliverScenario(c)
    \/ \E c \in Gens : SendUnblock(c)

\* a call in progress runs on to its return, and the host calls Gather
\* whenever no call is in progress
CallerStep ==
    \E t \in Callers :
        \/ StartMakeIn(t) \/ StartMakeDone(t) \/ StartMakeMetricC(t)
        \/ StartSubscribe(t) \/ StartGo(t)
        \/ GatherBegin(t) \/ GatherRecv(t) \/ GatherReturn(t) \/ Unlock(t)

\* the Go scheduler runs a runnable parser goroutine
WorkerStep == \E p \in Gens : ParserSelect(p) \/ ParserWake(p) \/ ParserSend(p)

\* and a delivery goroutine whose send can complete
SenderStep == \E c \in Gens : SendUnblock(c)

IsolationSpec ==
    /\ InitIso /\ [][NextIso]_vars
    /\ WF_vars(CallerStep) /\ WF_vars(WorkerStep) /\ WF_vars(SenderStep)

\* ---- createOpts, the CMP output and findVersion on their own -----------------
\* any configuration of the credentials, of the CMP output and of the
\* version file, with the consumer as constructed
UnitInit ==
    /\ ConsumerInit /\ Topics > 0 /\ MetricBuffer = 0
    /\ Username \in {"", "telegraf"} /\ Password \in {"", "secret"}
    /\ opts = NoOpts
    /\ APIUser \in {"", "user"} /\ APIKey \in {"", "key"}
    /\ CMPInstance \in {"", "https://cmp"} /\ ResourceID \in {"", "res-1"}
    /\ a_client = FALSE /\ connectErr = "none"
    /\ version = "" /\ file \in Files /\ impl \in {"part_000", "part_001"}
    /\ opens = 0 /\ calls = 0 /\ ret = ""

\* a call of createOpts, as Start makes it (line 66)
CallCreateOpts ==
    /\ opts' = createOpts(Username, Password, Servers)
    /\ UNCHANGED <<consumer, credentials, cmpConfig, cmpState, versionState>>

ConnectUnchecked ==
    /\ IF APIUser = "" \/ APIKey = "" \/ CMPInstance = ""
       THEN /\ connectErr' = "error"
            /\ a_client' = a_client
       ELSE /\ a_client' = TRUE
            /\ connectErr' = "nil"
    /\ UNCHANGED <<consumer, credentials, opts, cmpConfig, versionState>>

\* CMP.Connect (cmp.go lines 1907-1920)
Connect ==
    /\ IF APIUser = "" \/ APIKey = "" \/ CMPInstance = "" \/ ResourceID = ""
       THEN /\ connectErr' = "error"
            /\ a_client' = a_client
       ELSE /\ a_client' = TRUE
            /\ connectErr' = "nil"
    /\ UNCHANGED <<consumer, credentials, opts, cmpConfig, versionState>>

\* CMP.Close (cmp.go lines 2053-2057): a.client = nil
Close ==
    /\ a_client' = FALSE
    /\ UNCHANGED <<consumer, credentials, opts, cmpConfig, connectErr, versionState>>

\* findVersion (part_000 lines 16-43, part_001 lines 16-45)
findVersion ==
    /\ calls < MaxCalls
    /\ calls' = calls + 1
    /\ IF Cached
       THEN /\ ret' = version
            /\ UNCHANGED <<version, opens>>
       ELSE /\ opens' = opens + 1
            /\ version' = ReadVersion(file)
            /\ ret' = ReadVersion(file)
    /\ UNCHANGED <<consumer, credentials, opts, cmpConfig, cmpState, file, impl>>

UnitNext ==
    \/ CallCreateOpts
    \/ Connect
    \/ Close
    \/ findVersion

UnitSpec == UnitInit /\ [][UnitNext]_vars

\* ---- derived notions used by the properties -------------------------------
\* the pipeline is Running: the channels of the struct are those of a Start
\* that launched its parser, and no Stop has closed that Start's done channel
Running ==
    /\ m_done # 0 /\ m_done = m_in /\ m_done = m_metricC
    /\ parser[m_done].pc # "none"
    /\ ~doneClosed[m_done]

\* the pipeline as a completed Stop leaves it
StoppedByStop ==
    /\ m_done # 0 /\ doneClosed[m_done]
    /\ m_client # 0 /\ conn[m_client] = "disconnected"
    /\ lock = 0

\* the struct as constructed: no Start has touched it
NeverStarted ==
    m_client = 0 /\ m_in = 0 /\ m_done = 0 /\ m_metricC = 0

IsPrefix(s, q) == Len(s) <= Len(q) /\ SubSeq(q, 1, Len(s)) = s

\* metric a arrived before metric b (payload arrival order, then decode order)
Before(a, b) == a.msg < b.msg \/ (a.msg = b.msg /\ a.idx < b.idx)

InGather(t) == call[t].pc \in {"gather_loop", "gather_ret"}

Queued == UNION {{metBuf[g][k] : k \in DOMAIN metBuf[g]} : g \in Gens}

Forwarded == {acc[k] : k \in DOMAIN acc}

\* ---- properties ---------------------------------------------------------------

\* C1: the delivery callback never blocks: in no reachable state is a call of
\* recvMessage parked in its send, waiting for another actor to make room or
\* to receive.
C1_CallbackNeverBlocks ==
    \A c \in Gens : cb[c].pc # "blocked"

\* C2: a payload delivered while the Ingress Queue (capacity C > 0) holds C
\* payloads is dropped: the call returns at once leaving the queue as it was,
\* and the payload is never enqueued later.
C2_FullIngressDropsNewest ==
    [][ /\ (/\ msgs' = msgs + 1
            /\ m_in # 0 /\ inCap[m_in] > 0 /\ Len(inBuf[m_in]) = inCap[m_in])
           => (inBuf' = inBuf /\ cb' = cb)
        /\ \A c \in Gens :
             (cb[c].pc = "blocked" /\ inCap[cb[c].ch] > 0)
                => inBuf'[cb[c].ch] = inBuf[cb[c].ch] \/ cb'[c] = cb[c]
      ]_vars

\* C3: when the parser tries to enqueue a metric while the Egress Queue is
\* full, the metric is dropped (logged, and never in a queue or forwarded
\* afterwards), the Egress Queue is unchanged, and the parser goes on to the
\* next metric of the payload or back to its select.
C3_FullEgressDropsNewest ==
    [][ /\ \A p \in Gens :
             (/\ parser[p].pc = "range" /\ parser'[p] # parser[p]
              /\ m_metricC # 0 /\ Len(metBuf[m_metricC]) >= metCap[m_metricC])
                => /\ metBuf' = metBuf
                   /\ Head(parser[p].metrics) \in dropped'
                   /\ IF Len(parser[p].metrics) > 1
                      THEN /\ parser'[p].pc = "range"
                           /\ parser'[p].metrics = Tail(parser[p].metrics)
                      ELSE parser'[p].pc = "top"
        /\ dropped' \cap (Queued' \cup Forwarded') = {}
      ]_vars

\* a metric was dropped on a full Egress Queue, which still holds its records
C3_Witness ==
    /\ dropped # {}
    /\ m_metricC # 0 /\ metCap[m_metricC] > 0
    /\ Len(metBuf[m_metricC]) = metCap[m_metricC]

\* C4: in every reachable state each Ingress Queue and each Egress Queue holds
\* at most the capacity it was allocated with.
C4_QueuesWithinCapacity ==
    \A g \in Gens : Len(inBuf[g]) <= inCap[g] /\ Len(metBuf[g]) <= metCap[g]

\* both queues of the running pipeline are at capacity
C4_Witness ==
    /\ Running
    /\ inCap[m_in] > 0 /\ Len(inBuf[m_in]) = inCap[m_in]
    /\ Len(metBuf[m_metricC]) = metCap[m_metricC]

\* C5: a Gather call forwards exactly the L records that were in the Egress
\* Queue when it took its snapshot, in order; records enqueued after the
\* snapshot stay in the queue behind them.
C5_GatherForwardsSnapshot ==
    \A t \in Callers :
        InGather(t) =>
            /\ call[t].nmetrics = Len(call[t].snap)
            /\ call[t].i <= call[t].nmetrics
            /\ call[t].fwd = SubSeq(call[t].snap, 1, call[t].i)
            /\ IsPrefix(call[t].fwd, SubSeq(acc, Len(acc) - call[t].i + 1, Len(acc)))
            /\ call[t].i < call[t].nmetrics =>
                   /\ m_metricC # 0
                   /\ IsPrefix(SubSeq(call[t].snap, call[t].i + 1, call[t].nmetrics),
                               metBuf[m_metricC])
            /\ call[t].pc = "gather_ret" => call[t].fwd = call[t].snap

\* a Gather returns having forwarded its snapshot while a record that the
\* parser enqueued during the call is still in the queue
C5_Witness ==
    \E t \in Callers :
        /\ call[t].pc = "gather_ret"
        /\ call[t].nmetrics >= 1
        /\ m_metricC # 0 /\ metBuf[m_metricC] # <<>>

\* C6: Gather never waits for data: whenever it is about to dequeue, a record
\* is available, and a call that found the queue empty forwards nothing.
C6_GatherNeverWaits ==
    \A t \in Callers :
        /\ (call[t].pc = "gather_loop" /\ call[t].i < call[t].nmetrics)
              => (m_metricC # 0 /\ metBuf[m_metricC] # <<>>)
        /\ (InGather(t) /\ call[t].snap = <<>>)
              => (call[t].nmetrics = 0 /\ call[t].fwd = <<>>)

\* a Gather that found the queue empty returns with nothing forwarded although
\* a record arrived during the call
C6_Witness ==
    \E t \in Callers :
        /\ call[t].pc = "gather_ret"
        /\ call[t].snap = <<>> /\ call[t].fwd = <<>>
        /\ m_metricC # 0 /\ metBuf[m_metricC] # <<>>

\* C7: arrival order is preserved end to end for one delivery thread: of two
\* forwarded records that came from the same delivery thread, the one
\* forwarded first arrived first.
C7_ArrivalOrderPreserved ==
    \A j, k \in DOMAIN acc :
        (j < k /\ acc[j].src = acc[k].src) => Before(acc[j], acc[k])

\* C8: a Stop called on a pipeline that a Stop has just stopped raises no
\* fault.
C8_SecondStopNoFault ==
    [][StoppedByStop => fault' = "none"]_vars

\* C9: a Stop called on a pipeline that was never started raises no fault and
\* changes nothing of the struct.
C9_StopNeverStartedNoFault ==
    [][(NeverStarted /\ fault = "none") => fault' = "none"]_vars

\* C10: a Start called while the pipeline is Running fails fast: no step taken
\* from a Running state creates or connects a client or replaces the queues
\* or the shutdown signal.
C10_StartWhileRunningFailsFast ==
    [][Running => /\ nstarts' = nstarts
                  /\ m_client' = m_client
                  /\ m_in' = m_in /\ m_done' = m_done /\ m_metricC' = m_metricC
      ]_vars

\* parser goroutines that have been launched and have not returned
Alive == {p \in Gens : parser[p].pc \notin {"none", "exited"}}

\* C11: at most one parser goroutine is alive at any time.
C11_AtMostOneParser ==
    Cardinality(Alive) <= 1

\* the Start numbered g is between its connection and its return
InStart(g) ==
    \E t \in Callers :
        /\ call[t].g = g
        /\ call[t].pc \in {"start_in", "start_done", "start_metricC", "start_sub", "start_go"}

\* the Start numbered g has failed at its connection or its subscription step
StartFailed(g) ==
    /\ g <= nstarts /\ ~InStart(g)
    /\ conn[g] = "failed" \/ ~subscribed[g]

\* C12: a Start whose connection or subscription step fails returns the
\* error and launches no parser, and the pipeline becomes Running only by the
\* launch step of a Start that returns nil: a failing Start leaves a Stopped
\* pipeline Stopped.
C12_FailedStartStaysStopped ==
    [][ /\ \A g \in Gens :
             StartFailed(g)' =>
                 /\ parser'[g].pc = "none"
                 /\ ~(Running' /\ m_done' = g)
                 /\ \A t \in Callers :
                      (call'[t].pc = "start_ret" /\ call'[t].g = g) => call'[t].err
        /\ (~Running /\ Running') =>
               \E t \in Callers :
                   /\ call[t].pc = "start_go"
                   /\ call'[t].pc = "start_ret" /\ ~call'[t].err
      ]_vars

\* a Start returns the error of its failed subscription with no parser
\* launched
C12_Witness ==
    \E t \in Callers :
        /\ call[t].pc = "start_ret" /\ call[t].err
        /\ call[t].g # 0 /\ conn[call[t].g] = "connected" /\ ~subscribed[call[t].g]
        /\ parser[call[t].g].pc = "none"
        /\ ~Running

\* C13: with an empty server list Start returns the configuration error
\* before any connection attempt: no session is created, no queue is
\* allocated, no subscription is made and no parser is launched.
C13_NoServersNothingCreated ==
    Servers = 0 =>
        /\ nstarts = 0
        /\ m_client = 0 /\ m_in = 0 /\ m_done = 0 /\ m_metricC = 0
        /\ \A g \in Gens :
             /\ conn[g] = "none" /\ ~subscribed[g]
             /\ parser[g].pc = "none"
        /\ \A t \in Callers :
             /\ call[t].pc \notin {"start_in", "start_done", "start_metricC",
                                    "start_sub", "start_go"}
             /\ call[t].pc = "start_ret" => call[t].err

\* a Start with an empty server list is about to return its error
C13_Witness ==
    /\ Servers = 0
    /\ \E t \in Callers : call[t].pc = "start_ret" /\ call[t].err /\ lock = t

\* C14: with an empty topic list Start returns an error and launches no
\* parser, so the pipeline stays Stopped.
C14_NoTopicsStartFails ==
    Topics = 0 =>
        /\ \A g \in Gens : parser[g].pc = "none"
        /\ ~Running
        /\ \A t \in Callers : call[t].pc = "start_ret" => call[t].err

\* C15: a Start that finds metric_buffer 0 allocates the ingress queue with
\* the default capacity 100000, as a Start with metric_buffer = 100000 does.
C15_ZeroBufferIngressDefault ==
    [][ \A t \in Callers :
          (MetricBuffer = 0 /\ call[t].pc = "start_in" /\ call'[t].pc = "start_done")
              => inCap'[m_in'] = DefaultMetricBuffer ]_vars

\* C16: a negative metric_buffer causes no fault during queue allocation.
C16_NegativeBufferNoFault ==
    MetricBuffer < 0 => fault # "makechan: size out of range"

\* C17: a parser whose shutdown signal Stop has raised can observe it: it
\* is never parked in a select on a done channel that is still open, where
\* it would stay instead of exiting.
C17_SignalledWorkerExits ==
    \A p \in Gens :
        (doneClosed[p] /\ parser[p].pc = "blocked") => doneClosed[parser[p].d]

\* C18: when the session created by a Start has been disconnected, the
\* parser launched by that Start has already exited.
C18_WorkerExitedBeforeDisconnect ==
    \A g \in Gens :
        conn[g] = "disconnected" => parser[g].pc \in {"none", "exited"}

\* the caller is inside the body of Start, Stop or Gather
InBody(t) == call[t].pc # "idle"

\* C19: Start, Stop and Gather are mutually exclusive: at most one caller is
\* inside a body and it holds the lock, and while a Gather is in flight no
\* step of a Stop or a Start takes effect on the signal, the session or the
\* channel fields.
C19_MutualExclusion ==
    [][ /\ \A t, u \in Callers : (InBody(t)' /\ InBody(u)') => t = u
        /\ \A t \in Callers : InBody(t)' <=> lock' = t
        /\ \A t \in Callers :
             (InGather(t) /\ InGather(t)') =>
                 UNCHANGED <<doneClosed, session, fields, nstarts>>
      ]_vars

\* a Gather is in flight on a Running pipeline, holding the lock, while
\* another caller is ready to call Stop
C19_Witness ==
    \E t, u \in Callers :
        /\ call[t].pc = "gather_loop" /\ call[t].i >= 1 /\ call[t].i < call[t].nmetrics
        /\ lock = t /\ Running
        /\ u # t /\ Calls(u)

\* payload i or one of its metrics is still on its way to the accumulator
InFlight(i) ==
    \/ \E g \in Gens : \E k \in DOMAIN inBuf[g] : inBuf[g][k].id = i
    \/ \E c \in Gens : cb[c].pc = "blocked" /\ cb[c].msg.id = i
    \/ \E p \in Gens : \E k \in DOMAIN parser[p].metrics : parser[p].metrics[k].msg = i
    \/ \E m \in Queued : m.msg = i

\* every metric of payload i has been forwarded to the accumulator
Gathered(i) ==
    /\ ~InFlight(i)
    /\ \E m \in Forwarded : m.msg = i
    /\ \A m \in dropped : m.msg # i

\* C20: of a delivered sequence [valid1, malformed, valid2], with Gather
\* called again and again, the metrics of valid1 and of valid2 are eventually
\* all forwarded unless the egress queue was too small for one of them, and
\* the decode failure neither stops the parser nor raises a fault.
C20_MalformedPayloadIsolation ==
    /\ [](fault = "none" /\ \A p \in Gens : parser[p].pc # "exited")
    /\ \A i \in {1, Len(Scenario)} :
         (msgs >= i) ~> (Gathered(i) \/ \E m \in dropped : m.msg = i)

\* the three payloads were delivered, the malformed one was decoded, nothing
\* was dropped and the metrics of both valid payloads are forwarded with the
\* parser still running
C20_Witness ==
    /\ msgs = Len(Scenario) /\ dropped = {}
    /\ \A i \in 1..Len(Scenario) : ~InFlight(i)
    /\ Gathered(1) /\ Gathered(Len(Scenario))
    /\ \E p \in Gens : parser[p].pc \in {"top", "blocked"}

\* parser p receives the payload at the head of ingress channel i in this step
TakesHead(p, i) ==
    /\ parser[p].pc \in {"top", "blocked"}
    /\ parser'[p] # parser[p]
    /\ inBuf[i] # <<>> /\ inBuf'[i] = Tail(inBuf[i])

\* C21: a payload whose decoding returns an error is dropped as a whole: the
\* parser that received it goes back to its select and sends none of the
\* metrics the decoder returned alongside the error.
C21_ErrorPayloadDroppedWhole ==
    [][ \A p \in Gens : \A i \in Gens :
          (TakesHead(p, i) /\ ParseMetrics(Head(inBuf[i])).err)
              => parser'[p].pc # "range" ]_vars

\* payload i has been delivered and the parser is not yet done with it
Pending(i) ==
    \/ \E g \in Gens : \E k \in DOMAIN inBuf[g] : inBuf[g][k].id = i
    \/ \E c \in Gens : cb[c].pc = "blocked" /\ cb[c].msg.id = i
    \/ \E p \in Gens : \E k \in DOMAIN parser[p].metrics : parser[p].metrics[k].msg = i

\* the metrics of payload i that the parser has sent or dropped
Decoded(i) == {m \in Queued \cup Forwarded \cup dropped : m.msg = i}

\* the overflow scenario: one Start with metric_buffer = 1, two payloads
\* delivered and processed, each decoded to exactly one metric
Overflowed ==
    /\ nstarts = 1 /\ MetricBuffer = 1
    /\ msgs = 2
    /\ \A i \in 1..msgs : ~Pending(i) /\ Cardinality(Decoded(i)) = 1

\* C22: with metric_buffer = 1 and two one-metric payloads processed before
\* any Gather has forwarded anything, exactly one metric is retained in the
\* Egress Queue and the other is dropped, and the next Gather takes a
\* snapshot of exactly one record.
C22_OverflowScenario ==
    [][ (Overflowed' /\ acc' = <<>>) =>
          /\ Len(metBuf'[m_metricC']) = 1
          /\ Cardinality(dropped') = 1
          /\ \A t \in Callers :
               /\ InGather(t)' => call'[t].nmetrics <= 1
               /\ (Overflowed /\ call[t].pc = "idle" /\ call'[t].pc = "gather_loop")
                     => call'[t].nmetrics = 1
      ]_vars

\* the Gather after the overflow returns having forwarded exactly the one
\* retained record
C22_Witness ==
    /\ Overflowed
    /\ Cardinality(dropped) = 1
    /\ \E t \in Callers :
         /\ call[t].pc = "gather_ret"
         /\ Len(call[t].fwd) = 1 /\ acc = call[t].fwd
         /\ metBuf[m_metricC] = <<>>

\* the positions at which a metric of payload i was forwarded
ForwardedAt(i) == {k \in DOMAIN acc : acc[k].msg = i}

\* C23: end to end, a metric the parser queued is in the snapshot of the
\* next Gather, which forwards it as one record whose name, fields, tags and
\* timestamp are those of the decoded metric: the accumulator is given one
\* record per metric received, nothing added, removed or altered, and a
\* payload decoded to one metric yields at most one record.
C23_EndToEndOneRecord ==
    [][ /\ Len(added') = Len(acc')
        /\ \A k \in DOMAIN added' :
             /\ added'[k].name = Name(acc'[k])
             /\ added'[k].fields = Fields(acc'[k])
             /\ added'[k].tags = Tags(acc'[k])
             /\ added'[k].time = Time(acc'[k])
        /\ \A i \in 1..msgs' :
             (~Pending(i)' /\ Cardinality(Decoded(i)') = 1)
                 => Cardinality(ForwardedAt(i)') <= 1
        /\ \A t \in Callers :
             /\ (call[t].pc = "idle" /\ call'[t].pc = "gather_loop" /\ m_metricC # 0)
                   => call'[t].snap = metBuf[m_metricC]
             /\ call'[t].pc = "gather_ret"
                   => \A k \in DOMAIN call'[t].snap : call'[t].snap[k] \in Forwarded'
      ]_vars

\* a Gather on the Running pipeline returns having forwarded the one metric
\* of a processed payload as one record with that metric's parts
C23_Witness ==
    /\ Running
    /\ \E t \in Callers :
         /\ call[t].pc = "gather_ret" /\ Len(call[t].fwd) = 1
         /\ LET metric == call[t].fwd[1]
            IN  /\ ~Pending(metric.msg) /\ Decoded(metric.msg) = {metric}
                /\ dropped = {}
                /\ added = <<AddFields(Name(metric), Fields(metric),
                                       Tags(metric), Time(metric))>>

\* every metric the parser has decoded and not lost: still with the parser,
\* queued, forwarded or dropped
DecodedAll ==
    Queued \cup Forwarded \cup dropped
      \cup UNION {{parser[p].metrics[k] : k \in DOMAIN parser[p].metrics} : p \in Gens}

\* C24: no record is forwarded twice and none is fabricated: the records
\* given to the accumulator are distinct metrics decoded from delivered
\* payloads, each no longer in a queue, so their number is at most the number
\* of metrics decoded, and at most the number of payloads delivered when
\* every payload decodes to one metric.
C24_NoDuplicateNoFabrication ==
    /\ \A j, k \in DOMAIN acc : acc[j] = acc[k] => j = k
    /\ Len(added) = Len(acc)
    /\ \A k \in DOMAIN acc :
         /\ acc[k].msg \in 1..msgs
         /\ acc[k].idx \in 1..NumMetrics("two")
         /\ acc[k] \notin Queued
         /\ acc[k] \notin dropped
    /\ (\A i \in 1..msgs : Cardinality({m \in DecodedAll : m.msg = i}) <= 1)
          => Len(acc) <= msgs

\* both delivered payloads decoded to one metric each and both records were
\* forwarded
C24_Witness ==
    /\ msgs = MaxMsgs
    /\ Len(acc) = msgs
    /\ \A i \in 1..msgs : Cardinality({m \in DecodedAll : m.msg = i}) = 1

\* C25: no actor is blocked forever and no fault is raised because of
\* traffic: a delivery callback parked in its send to m.in always has a
\* parser that receives from that channel, alive or about to be launched by
\* the Start in progress.
C25_NoActorBlockedForever ==
    \A c \in Gens :
        cb[c].pc = "blocked" =>
            /\ cb[c].ch = m_in
            /\ Alive # {} \/ InStart(m_in)

\* C26: only Start returns errors: every Gather returns nil, in a pipeline
\* never started, Running or Stopped alike, no step of a Gather raises a
\* fault, and a decode failure or a drop on a full queue reaches no caller.
C26_OnlyStartReturnsErrors ==
    [][ \A t \in Callers :
          /\ call'[t].pc = "gather_ret" => ~call'[t].err
          /\ call'[t].err => call'[t].pc = "start_ret"
          /\ InGather(t)' => fault' = "none"
      ]_vars

\* a Gather returns nil after metrics were dropped on a full queue
C26_Witness ==
    \E t \in Callers :
        /\ call[t].pc = "gather_ret" /\ ~call[t].err
        /\ dropped # {} /\ call[t].fwd # <<>>

\* Start number g was called after every earlier Start that launched a parser
\* had been followed by a Stop
CleanRestart(g) ==
    /\ g > 1 /\ g <= nstarts
    /\ \A h \in 1..(g - 1) : parser[h].pc # "none" => doneClosed[h]

\* C27: after Start, Stop, Start the pipeline runs on queues of its own as
\* after a first Start: the Egress Queue allocated by the second Start holds
\* only metrics of payloads delivered to the second Start's session.
C27_CleanRestart ==
    \A g \in Gens :
        CleanRestart(g) =>
            \A k \in DOMAIN metBuf[g] : metBuf[g][k].src = g

\* the Start in progress of caller t, if any, is at step pc
AtStep(t, pc) == call[t].pc = pc /\ call[t].g # 0

\* C28: Start connects, allocates the queues and the shutdown signal,
\* subscribes and only then launches the parser: a callback that can fire
\* finds the Ingress Queue allocated, and a parser is launched only after the
\* subscription of its Start has succeeded.
C28_StartStepOrder ==
    /\ \A c \in Gens :
         /\ subscribed[c] => (conn[c] # "none" /\ conn[c] # "failed" /\ m_in # 0 /\ m_in >= c)
         /\ cb[c].pc = "blocked" => cb[c].ch # 0
         /\ parser[c].pc # "none" => subscribed[c]
    /\ \A t \in Callers :
         /\ AtStep(t, "start_in") =>
               /\ conn[call[t].g] = "connected" /\ m_in < call[t].g
               /\ ~subscribed[call[t].g] /\ parser[call[t].g].pc = "none"
         /\ (AtStep(t, "start_done") \/ AtStep(t, "start_metricC") \/ AtStep(t, "start_sub")) =>
               /\ m_in = call[t].g
               /\ ~subscribed[call[t].g] /\ parser[call[t].g].pc = "none"
         /\ AtStep(t, "start_sub") =>
               m_done = call[t].g /\ m_metricC = call[t].g
         /\ AtStep(t, "start_go") =>
               /\ m_in = call[t].g /\ m_done = call[t].g /\ m_metricC = call[t].g
               /\ subscribed[call[t].g] /\ parser[call[t].g].pc = "none"

\* a payload arrived through the installed callback before the parser was
\* launched and is in the allocated Ingress Queue
C28_Witness ==
    \E t \in Callers :
        /\ AtStep(t, "start_go")
        /\ inCap[m_in] > 0 /\ inBuf[m_in] # <<>>
        /\ Alive = {}

\* payload i is in an Ingress Queue
InIngress(i) == \E g \in Gens : \E k \in DOMAIN inBuf[g] : inBuf[g][k].id = i

\* C29: while the pipeline is Running and no Stop is issued, every payload
\* placed in the Ingress Queue is eventually dequeued by the parser, and the
\* parser can always take its next step unless the Ingress Queue is empty: a
\* full Egress Queue or a Gather holding the lock never stalls it.
C29_IngressEventuallyDequeued ==
    /\ []((Alive # {} /\ m_in # 0 /\ inBuf[m_in] # <<>>) => ENABLED WorkerStep)
    /\ [](\A p \in Gens : parser[p].pc = "range" => ENABLED ParserSend(p))
    /\ \A i \in 1..Len(Scenario) : InIngress(i) ~> ~InIngress(i)

\* a payload waits in the Ingress Queue while the parser is about to send to
\* a full Egress Queue and a Gather holds the lock
C29_Witness ==
    /\ Running /\ inBuf[m_in] # <<>>
    /\ \E p \in Gens : parser[p].pc = "range"
    /\ Len(metBuf[m_metricC]) = metCap[m_metricC]
    /\ \E t \in Callers : call[t].pc = "gather_loop" /\ lock = t

\* the delivery goroutine of client c has a payload to hand to recvMessage
CanDeliver(c) ==
    /\ fault = "none" /\ cb[c].pc = "idle"
    /\ conn[c] = "connected" /\ subscribed[c] /\ Topics > 0
    /\ msgs < MaxMsgs

\* C30: neither the delivery callback nor the parser takes the pipeline
\* lock: their steps leave the lock as it is, and they are enabled whoever
\* holds it, so a Start, Stop or Gather in progress never keeps the callback
\* from enqueuing or the parser from dequeuing and enqueuing.
C30_CallbackAndParserLockFree ==
    /\ [][ call' = call => lock' = lock ]_vars
    /\ [](\A c \in Gens : CanDeliver(c) => ENABLED Deliver(c))
    /\ [](\A p \in Gens :
            fault = "none" =>
              /\ parser[p].pc = "top" => ENABLED ParserSelect(p)
              /\ parser[p].pc = "range" => ENABLED ParserSend(p)
              /\ (parser[p].pc = "blocked" /\ SelectReady(parser[p].d, parser[p].i))
                    => ENABLED ParserWake(p))

\* during a Gather that holds the lock the parser has enqueued a metric and
\* the callback a payload
C30_Witness ==
    /\ Running
    /\ \E t \in Callers :
         /\ lock = t /\ call[t].pc = "gather_ret" /\ call[t].snap = <<>>
         /\ Len(metBuf[m_metricC]) >= 1
         /\ inBuf[m_in] # <<>>

\* C31: Stop, holding the lock, raises the shutdown signal first and only
\* then disconnects the session: whenever a Stop is about to disconnect, and
\* in every step that disconnects a session, the done channel of the struct
\* is already closed and the lock is held by that Stop.
C31_StopSignalsThenDisconnects ==
    [][ /\ \A t \in Callers :
             call'[t].pc = "stop_disc" =>
                 (lock' = t /\ m_done' # 0 /\ doneClosed'[m_done'])
        /\ \A g \in Gens :
             (conn[g] # "disconnected" /\ conn'[g] = "disconnected") =>
                 /\ m_done # 0 /\ doneClosed[m_done]
                 /\ \E t \in Callers : lock = t /\ call[t].pc = "stop_disc"
      ]_vars

\* a Stop has raised the signal and disconnected the session of a Running
\* pipeline and is about to return
C31_Witness ==
    \E t \in Callers :
        /\ call[t].pc = "stop_ret" /\ lock = t
        /\ doneClosed[m_done] /\ conn[m_client] = "disconnected"
        /\ m_done = m_client

\* C32 as stated: the username option is set only when the configured
\* username is empty, and the password option is set only when the
\* configured password is empty.
C32_CredentialsSetOnlyWhenEmpty ==
    opts.called =>
        /\ opts.usernameSet => Username = ""
        /\ opts.passwordSet => Password = ""

\* C32 as amended: the username option is set exactly when the configured
\* username is empty (and then to the empty string), and the password option
\* is set exactly when the configured password is non-empty, to that
\* password.
C32_UsernameWhenEmptyPasswordWhenSet ==
    opts.called =>
        /\ opts.usernameSet <=> Username = ""
        /\ opts.username = ""
        /\ opts.passwordSet <=> Password # ""
        /\ opts.password = Password

\* createOpts has returned for a configuration with both a username and a
\* password: only the password option was set
C32_Witness ==
    /\ opts.called
    /\ Username # "" /\ Password # ""
    /\ ~opts.usernameSet /\ opts.passwordSet

\* caller t is inside Stop
InStop(t) == call[t].pc \in {"stop_disc", "stop_ret"}

\* C33: Stop leaves the Egress Queue as it is: no step of a Stop changes the
\* queue, the field m.metricC or what was forwarded, and a Gather called on
\* the stopped pipeline takes the whole queue as its snapshot, which it
\* forwards in order.
C33_StopKeepsEgressQueue ==
    [][ \A t \in Callers :
          /\ ((InStop(t) \/ InStop(t)') /\ call'[t] # call[t])
                => UNCHANGED <<metBuf, metCap, m_metricC, acc, added>>
          /\ (m_done # 0 /\ doneClosed[m_done] /\ m_metricC # 0
                /\ call[t].pc = "idle" /\ call'[t].pc = "gather_loop")
                => /\ call'[t].snap = metBuf[m_metricC]
                   /\ call'[t].nmetrics = Len(metBuf[m_metricC])
          /\ call'[t].pc = "gather_ret" => call'[t].fwd = call'[t].snap
      ]_vars

\* a Gather called after Stop returns having forwarded, in order, the two
\* records the Egress Queue still held
C33_Witness ==
    /\ m_done # 0 /\ doneClosed[m_done] /\ conn[m_client] = "disconnected"
    /\ \E t \in Callers :
         /\ call[t].pc = "gather_ret" /\ Len(call[t].fwd) >= 2
         /\ acc = call[t].fwd
         /\ Before(acc[1], acc[2])

\* everything but the lock and the calls in progress
exceptCalls == <<config, units, MetricBuffer, fields, nstarts, inHeap, metHeap, doneClosed,
                 session, parser, cb, msgs, accum, dropped, fault>>

\* C34: Gather on a pipeline that was never started forwards nothing,
\* returns nil, raises no fault and changes no state: its steps change only
\* the lock and the call itself, its snapshot is 0 and its result no error.
C34_GatherNeverStarted ==
    [][ \A t \in Callers :
          (NeverStarted /\ (InGather(t) \/ InGather(t)')) =>
              /\ UNCHANGED exceptCalls
              /\ fault' = "none"
              /\ InGather(t)' =>
                    /\ call'[t].nmetrics = 0 /\ call'[t].fwd = <<>>
                    /\ ~call'[t].err
              /\ ~InGather(t)' => (lock' = 0 /\ call'[t] = IdleCall)
      ]_vars

\* a Gather on the never-started pipeline is about to return nil with
\* nothing forwarded
C34_Witness ==
    /\ NeverStarted /\ fault = "none" /\ acc = <<>>
    /\ \E t \in Callers :
         call[t].pc = "gather_ret" /\ ~call[t].err /\ call[t].nmetrics = 0

\* the Start of caller t has just failed, or fails in this step, at its
\* subscription
SubscribeFailed(t) ==
    /\ call[t].pc = "start_ret" /\ call[t].err
    /\ call[t].g # 0 /\ conn[call[t].g] # "failed"

\* C35: a Start that fails at the subscription step undoes nothing: when it
\* returns the error, and after it has returned, the session it opened is
\* still connected and the Ingress Queue, the Egress Queue and the shutdown
\* signal it allocated are still the ones in the struct, the signal not
\* raised.
C35_FailedSubscribeUndoesNothing ==
    [][ \A t \in Callers :
          /\ SubscribeFailed(t)' =>
                LET g == call'[t].g
                IN  /\ m_client' = g /\ conn'[g] = "connected"
                    /\ m_in' = g /\ m_done' = g /\ m_metricC' = g
                    /\ ~doneClosed'[g]
                    /\ ~subscribed'[g] /\ parser'[g].pc = "none"
          /\ (SubscribeFailed(t) /\ call'[t] # call[t]) =>
                UNCHANGED <<fields, conn, inHeap, metHeap, doneClosed>>
      ]_vars

\* a Start has returned the subscription error: no call is in progress, the
\* session is connected and the channels are allocated
C35_Witness ==
    /\ lock = 0 /\ \A t \in Callers : call[t].pc = "idle"
    /\ m_client # 0 /\ conn[m_client] = "connected" /\ ~subscribed[m_client]
    /\ m_in = m_client /\ m_done = m_client /\ m_metricC = m_client
    /\ ~doneClosed[m_done] /\ metCap[m_metricC] > 0

\* the Start numbered g has allocated its Ingress Queue
AllocatedIn(g) ==
    /\ conn[g] \in {"connected", "disconnected"}
    /\ ~\E t \in Callers : AtStep(t, "start_in") /\ call[t].g = g

\* the Start numbered g has allocated its Egress Queue
AllocatedMetricC(g) == AllocatedIn(g) /\ metCap[g] > 0

\* C36: a Start that reaches the allocation with metric_buffer = 0 allocates
\* the Ingress Queue with capacity 0, then overwrites the stored
\* metric_buffer with 100000 and allocates the Egress Queue with capacity
\* 100000; every later Start on the same object allocates both queues with
\* capacity 100000.
C36_ZeroBufferFirstStart ==
    [][ /\ MetricBuffer' # MetricBuffer =>
             /\ MetricBuffer = 0 /\ MetricBuffer' = DefaultMetricBuffer
             /\ \E t \in Callers :
                  /\ call[t].pc = "start_done"
                  /\ m_in = call[t].g /\ inCap[m_in] = 0
        /\ \A g \in Gens :
             (AllocatedIn(g)' /\ inCap'[g] = 0) =>
                 /\ \A h \in Gens : h < g => ~AllocatedIn(h)'
                 /\ AllocatedMetricC(g)' =>
                        (metCap'[g] = DefaultMetricBuffer /\ MetricBuffer' = DefaultMetricBuffer)
                 /\ \A h \in Gens :
                      (h > g /\ AllocatedIn(h)') =>
                          /\ inCap'[h] = DefaultMetricBuffer
                          /\ AllocatedMetricC(h)' => metCap'[h] = DefaultMetricBuffer
      ]_vars

\* two Starts on an object configured with metric_buffer 0: the first got an
\* unbuffered Ingress Queue, the second one of 100000; both Egress Queues
\* have 100000
C36_Witness ==
    /\ AllocatedMetricC(1) /\ inCap[1] = 0 /\ metCap[1] = DefaultMetricBuffer
    /\ \E h \in Gens :
         /\ h > 1 /\ AllocatedMetricC(h)
         /\ inCap[h] = DefaultMetricBuffer /\ metCap[h] = DefaultMetricBuffer

\* one of the four required fields of the CMP output is empty
MissingField == APIUser = "" \/ APIKey = "" \/ CMPInstance = "" \/ ResourceID = ""

\* C37: Connect of the CMP output returns an error and leaves the HTTP client
\* unset when at least one of api_user, api_key, cmp_instance, resource_id
\* is empty; when all four are non-empty it sets the client and returns no
\* error.
C37_ConnectRequiresAllFields ==
    /\ MissingField => (~a_client /\ connectErr \in {"none", "error"})
    /\ ~MissingField => connectErr \in {"none", "nil"}
    /\ a_client => connectErr = "nil"
    /\ ~MissingField => ENABLED (Connect /\ a_client' /\ connectErr' = "nil")
    /\ MissingField => ENABLED (Connect /\ ~a_client' /\ connectErr' = "error")

\* Connect was called with only resource_id missing: error, client unset
C37_Witness ==
    /\ APIUser # "" /\ APIKey # "" /\ CMPInstance # "" /\ ResourceID = ""
    /\ connectErr = "error" /\ ~a_client

\* C38: findVersion reads the version file at most once: after the first
\* call every later call returns the same string without opening the file
\* again, also when the first call failed or found no "version: " line and
\* cached "unknown".
C38_VersionFileReadOnce ==
    [][ (calls >= 1 /\ calls' = calls + 1) => (opens' = opens /\ ret' = ret) ]_vars

====
